---- MODULE Spec2Model ----
(***************************************************************************)
(* A model of runce (jet-logic/runce): the registry of singleton           *)
(* processes (runce/spawn.py, runce/cli.py), the name resolver and the     *)
(* log tailer (runce/utils.py).                                            *)
(*                                                                         *)
(* These specifications share the module:                                  *)
(*   Spec      the registry: concurrent invocations of run, spawn, kill,   *)
(*             clean and restart over one data directory and the OS        *)
(*             process table;                                              *)
(*   SpecLook  look_multiple, run item by item and id by id on bounded     *)
(*             inputs;                                                     *)
(*   SpecTail  tail_file, run byte by byte on bounded file contents;       *)
(*   SpecBytes tail_bytes on bounded file contents;                        *)
(*   SpecGrow  tail_file and tail_bytes while a producer appends;          *)
(*   SpecProbe check_pid, in its three variants, on a process table;       *)
(*   SpecScan  Spawn.all file by file, while run files are written and     *)
(*             removed.                                                    *)
(* Text is a sequence of one-character strings, so that substrings,        *)
(* slugs and lines are computed and not assumed.                           *)
(***************************************************************************)
EXTENDS Integers, Sequences, FiniteSets, TLC

VARIABLES
    \* ---- tail_file (SpecTail)
    file,       \* the bytes of the file being tailed
    tn,         \* the argument n
    tend,       \* end: the EOF position taken by f.tell()
    tpos,       \* pos
    tcount,     \* line_count
    tpc,        \* "open" | "scan" | "done"
    tresult,    \* the returned list of lines
    \* ---- look_multiple (SpecLook)
    lids,       \* the argument ids
    lruns,      \* the argument runs
    lmap,       \* map_ids, in key order: id, exact list, partial list
    li,         \* the next item of runs the first loop takes
    lk,         \* the next key of map_ids the second loop takes
    levents,    \* what the generator did so far: yields and callback calls
    \* ---- the registry (Spec)
    files,      \* the file system: path -> [ino, data], for the paths that exist
    procs,      \* the OS process table: pid -> [st, name]
    inv,        \* the invocations in flight: slot -> its command and position
    clock,      \* the source of time() and uuid4(): spawns prepared so far
    ncmd        \* commands started so far

tvars == <<file, tn, tend, tpos, tcount, tpc, tresult>>
lvars == <<lids, lruns, lmap, li, lk, levents>>

rvars == <<files, procs, inv, clock, ncmd>>

notTail == <<lvars, rvars>>
notLook == <<tvars, rvars>>
notReg == <<tvars, lvars>>

vars == <<file, tn, tend, tpos, tcount, tpc, tresult,
          lids, lruns, lmap, li, lk, levents,
          files, procs, inv, clock, ncmd>>

(***************************************************************************)
(* Bounds of the model.                                                    *)
(***************************************************************************)
MaxFileLen == 5
MaxN == 3

LF == "\n"
CR == "\r"

\* The bytes file contents are drawn from.
Bytes == {"a", "b", LF, CR}

RECURSIVE SeqsUpTo(_, _)
\* All sequences over S of length at most k.
SeqsUpTo(S, k) ==
    IF k = 0 THEN {<<>>}
    ELSE LET shorter == SeqsUpTo(S, k - 1)
         IN  shorter \cup {Append(s, x) : s \in {t \in shorter : Len(t) = k - 1}, x \in S}

\* lst[-n:] of Python: the last n elements, and the whole list when n = 0
\* (-0 is 0) or when the list is shorter than n.
LastN(lst, n) ==
    IF n = 0 \/ Len(lst) <= n THEN lst
    ELSE SubSeq(lst, Len(lst) - n + 1, Len(lst))

\* The offset (1-based) of the first line boundary byte of s, 0 when none.
FirstBreak(s) ==
    LET idx == {i \in 1..Len(s) : s[i] \in {LF, CR}}
    IN  IF idx = {} THEN 0 ELSE CHOOSE i \in idx : \A j \in idx : i <= j

RECURSIVE splitlines(_)
\* bytes.splitlines(): lines end at "\n", "\r" or "\r\n"; the terminators are
\* dropped and a terminator at the very end adds no empty line.
splitlines(s) ==
    IF s = <<>> THEN <<>>
    ELSE LET i == FirstBreak(s)
         IN  IF i = 0 THEN <<s>>
             ELSE LET skip == IF s[i] = CR /\ i < Len(s) /\ s[i + 1] = LF
                              THEN i + 1 ELSE i
                  IN  <<SubSeq(s, 1, i - 1)>> \o splitlines(SubSeq(s, skip + 1, Len(s)))

\* f.seek(p); f.read(): the bytes from offset p to the end of the file
\* (nothing when p is at or past the end).
ReadFrom(s, p) == IF p >= Len(s) THEN <<>> ELSE SubSeq(s, p + 1, Len(s))

\* The tailer at rest, in the specifications that do not run it.
TailIdle ==
    /\ file = <<>> /\ tn = 0 /\ tend = 0 /\ tpos = 0 /\ tcount = 0
    /\ tpc = "idle" /\ tresult = <<>>

\* The resolver at rest, in the specifications that do not run it.
LookIdle ==
    /\ lids = <<>> /\ lruns = <<>> /\ lmap = <<>> /\ li = 0 /\ lk = 0
    /\ levents = <<>>

\* The registry at rest, in the specifications that do not run it.
RegIdle ==
    /\ files = <<>> /\ procs = <<>> /\ inv = <<>> /\ clock = 0 /\ ncmd = 0

(***************************************************************************)
(* tail_file(filename, n), utils.py 239-256.                               *)
(***************************************************************************)
TailInit ==
    /\ file \in SeqsUpTo(Bytes, MaxFileLen)
    /\ tn \in 0..MaxN
    /\ tend = 0
    /\ tpos = 0
    /\ tcount = 0
    /\ tpc = "open"
    /\ tresult = <<>>

\* f.seek(0, 2); end = f.tell(); line_count = 0; pos = end - 1
TailSeekEnd ==
    /\ tpc = "open"
    /\ tend' = Len(file)
    /\ tcount' = 0
    /\ tpos' = Len(file) - 1
    /\ tpc' = "scan"
    /\ UNCHANGED <<file, tn, tresult>>
    /\ UNCHANGED notTail

\* One turn of: while pos >= 0 and line_count < n
TailScan ==
    /\ tpc = "scan"
    /\ tpos >= 0 /\ tcount < tn
    /\ tcount' = IF file[tpos + 1] = LF THEN tcount + 1 ELSE tcount
    /\ tpos' = tpos - 1
    /\ UNCHANGED <<file, tn, tend, tpc, tresult>>
    /\ UNCHANGED notTail

\* The position tail_file seeks to when the scan is over.
TailSeekPos(pos) == pos + 2

\* f.seek(pos + 2); return f.read().splitlines()[-n:]
TailRead ==
    /\ tpc = "scan"
    /\ ~(tpos >= 0 /\ tcount < tn)
    /\ tresult' = LastN(splitlines(ReadFrom(file, TailSeekPos(tpos))), tn)
    /\ tpc' = "done"
    /\ UNCHANGED <<file, tn, tend, tpos, tcount>>
    /\ UNCHANGED notTail

TailNext == TailSeekEnd \/ TailScan \/ TailRead

TailSpecInit == TailInit /\ LookIdle /\ RegIdle

SpecTail == TailSpecInit /\ [][TailNext]_vars

\* The full read-and-slice reference: content.splitlines()[-n:].
TailReference == LastN(splitlines(file), tn)

\* C9: for n >= 1 and a file of more than n lines, with or without a newline
\* after its last line, tail_file returns the last n lines, as
\* content.splitlines()[-n:] does.
C9_TailMatchesReference ==
    (tpc = "done" /\ tn >= 1 /\ Len(splitlines(file)) > tn) => tresult = TailReference

\* C10: when the backward scan reaches the start of the file before n newlines
\* are crossed, tail_file returns every line of the file, complete and in
\* order (the empty list for the empty file).
C10_TailWholeFileAtStart ==
    (tpc = "done" /\ tpos < 0 /\ tcount < tn) => tresult = splitlines(file)

(***************************************************************************)
(* tail_bytes(filename, num_bytes), utils.py 272-283.                      *)
(***************************************************************************)
MaxNumBytes == 6

BytesInit ==
    /\ file \in SeqsUpTo(Bytes, MaxFileLen)
    /\ tn \in 0..MaxNumBytes
    /\ tend = 0
    /\ tpos = 0
    /\ tcount = 0
    /\ tpc = "bytes_open"
    /\ tresult = <<>>

\* f.seek(0, 2); file_size = f.tell()
BytesSeekEnd ==
    /\ tpc = "bytes_open"
    /\ tend' = Len(file)
    /\ tpos' = Len(file)
    /\ tpc' = "bytes_sized"
    /\ UNCHANGED <<file, tn, tcount, tresult>>
    /\ UNCHANGED notTail

\* A seek that counts from the start of the file (not what the code does).
BytesSeekPosFromStart(file_size, num_bytes) == num_bytes

\* f.seek(-num_bytes, 2): the offset num_bytes before the end of a file of
\* file_size bytes, the size the file has when the seek is made.
BytesSeekPos(file_size, num_bytes) == file_size - num_bytes

\* f.read(k) at offset p: at most k bytes, up to the end of the file.
ReadAt(s, p, k) ==
    IF p >= Len(s) \/ k = 0 THEN <<>>
    ELSE SubSeq(s, p + 1, IF p + k < Len(s) THEN p + k ELSE Len(s))

\* if file_size < num_bytes: f.seek(0); return f.read()
BytesReadAll ==
    /\ tpc = "bytes_sized"
    /\ tend < tn
    /\ tpos' = 0
    /\ tresult' = ReadFrom(file, 0)
    /\ tpc' = "bytes_done"
    /\ UNCHANGED <<file, tn, tend, tcount>>
    /\ UNCHANGED notTail

\* else: f.seek(-num_bytes, 2); return f.read(num_bytes)
BytesReadLast ==
    /\ tpc = "bytes_sized"
    /\ ~(tend < tn)
    /\ tpos' = BytesSeekPos(Len(file), tn)
    /\ tresult' = ReadAt(file, BytesSeekPos(Len(file), tn), tn)
    /\ tpc' = "bytes_done"
    /\ UNCHANGED <<file, tn, tend, tcount>>
    /\ UNCHANGED notTail

BytesNext == BytesSeekEnd \/ BytesReadAll \/ BytesReadLast

BytesSpecInit == BytesInit /\ LookIdle /\ RegIdle

SpecBytes == BytesSpecInit /\ [][BytesNext]_vars

\* C11: tail_bytes returns the whole file when the file is shorter than
\* num_bytes and the last num_bytes bytes of it otherwise, so that the result
\* has min(size, num_bytes) bytes.
C11_TailBytes ==
    tpc = "bytes_done" =>
        /\ Len(file) < tn => tresult = file
        /\ Len(file) >= tn =>
              /\ Len(tresult) = tn
              /\ \A k \in 1..tn : tresult[k] = file[Len(file) - tn + k]
        /\ Len(tresult) = (IF Len(file) < tn THEN Len(file) ELSE tn)

\* tail_bytes has cut a file that is longer than the bytes asked for, and
\* some bytes were asked for.
C11_Witness ==
    /\ tpc = "bytes_done" /\ tn > 0 /\ Len(file) > tn
    /\ tresult = SubSeq(file, Len(file) - tn + 1, Len(file))

(***************************************************************************)
(* look_multiple(ids, runs, ambiguous, not_found), utils.py 187-213.       *)
(***************************************************************************)
MaxIds == 3
MaxRuns == 3

\* The names of the records and the ids look_multiple is run on.
LookNames == {<<"a">>, <<"a", "b">>, <<"b", "a">>}
LookIdSet == {<<>>, <<"a">>, <<"b">>, <<"a", "b">>, <<"c">>}

\* The record slot of an event that carries no record.
NoRec == [name |-> <<>>, pid |-> 0]

\* Python's "s in t" on strings: s is a contiguous part of t.
IsSubstr(s, t) == \E i \in 0..(Len(t) - Len(s)) : SubSeq(t, i + 1, i + Len(s)) = s

RECURSIVE DictKeysFrom(_, _)
DictKeysFrom(ids, seen) ==
    IF ids = <<>> THEN <<>>
    ELSE IF Head(ids) \in seen THEN DictKeysFrom(Tail(ids), seen)
    ELSE <<Head(ids)>> \o DictKeysFrom(Tail(ids), seen \cup {Head(ids)})

\* A list of keys that keeps an id as often as it was given.
DictKeysKeepDuplicates(ids) == ids

\* The keys of dict([(id, ...) for id in ids]): each id once, in the order of
\* its first occurrence.
DictKeys(ids) == DictKeysFrom(ids, {})

\* map_ids = dict([(id, ([], [])) for id in ids])
InitMap(ids) ==
    LET keys == DictKeys(ids)
    IN  [k \in 1..Len(keys) |-> [id |-> keys[k], exact |-> <<>>, partial |-> <<>>]]

\* The body of "for item in runs": the item is filed under every id it matches.
ScanItem(map, item) ==
    [k \in DOMAIN map |->
        IF item.name = map[k].id
        THEN [map[k] EXCEPT !.exact = Append(@, item)]
        ELSE IF IsSubstr(map[k].id, item.name)
        THEN [map[k] EXCEPT !.partial = Append(@, item)]
        ELSE map[k]]

Event(kind, id, rec) == [kind |-> kind, id |-> id, rec |-> rec]

\* A resolver that yields the first exact match also when there are several.
ResolveEntryYieldsAmbiguous(e) ==
    IF e.exact # <<>>
    THEN (IF Len(e.exact) > 1 THEN <<Event("ambiguous", e.id, NoRec)>> ELSE <<>>)
         \o <<Event("yield", e.id, e.exact[1])>>
    ELSE IF e.partial # <<>>
    THEN IF Len(e.partial) > 1 THEN <<Event("ambiguous", e.id, NoRec)>>
         ELSE <<Event("yield", e.id, e.partial[1])>>
    ELSE <<Event("not_found", e.id, NoRec)>>

\* A resolver that looks at the partial matches before the exact ones.
ResolveEntryPartialFirst(e) ==
    IF e.partial # <<>>
    THEN IF Len(e.partial) > 1 THEN <<Event("ambiguous", e.id, NoRec)>>
         ELSE <<Event("yield", e.id, e.partial[1])>>
    ELSE IF e.exact # <<>>
    THEN IF Len(e.exact) > 1 THEN <<Event("ambiguous", e.id, NoRec)>>
         ELSE <<Event("yield", e.id, e.exact[1])>>
    ELSE <<Event("not_found", e.id, NoRec)>>

\* The body of "for id, (exact, partial) in map_ids.items()": what the
\* generator does for one id, as the events it causes.
ResolveEntry(e) ==
    IF e.exact # <<>>
    THEN IF Len(e.exact) > 1 THEN <<Event("ambiguous", e.id, NoRec)>>
         ELSE <<Event("yield", e.id, e.exact[1])>>
    ELSE IF e.partial # <<>>
    THEN IF Len(e.partial) > 1 THEN <<Event("ambiguous", e.id, NoRec)>>
         ELSE <<Event("yield", e.id, e.partial[1])>>
    ELSE <<Event("not_found", e.id, NoRec)>>

\* The lists of records look_multiple is run on: a record per position,
\* told apart by its pid.
LookRuns ==
    {[i \in 1..Len(ns) |-> [name |-> ns[i], pid |-> i]] :
        ns \in SeqsUpTo(LookNames, MaxRuns)}

LookInit ==
    /\ lids \in SeqsUpTo(LookIdSet, MaxIds)
    /\ lruns \in LookRuns
    /\ lmap = InitMap(lids)
    /\ li = 1
    /\ lk = 1
    /\ levents = <<>>

\* One turn of the first loop.
LookScan ==
    /\ li >= 1 /\ li <= Len(lruns)
    /\ lmap' = ScanItem(lmap, lruns[li])
    /\ li' = li + 1
    /\ UNCHANGED <<lids, lruns, lk, levents>>
    /\ UNCHANGED notLook

\* One turn of the second loop.
LookResolve ==
    /\ li > Len(lruns)
    /\ lk >= 1 /\ lk <= Len(lmap)
    /\ levents' = levents \o ResolveEntry(lmap[lk])
    /\ lk' = lk + 1
    /\ UNCHANGED <<lids, lruns, lmap, li>>
    /\ UNCHANGED notLook

LookNext == LookScan \/ LookResolve

LookSpecInit == LookInit /\ TailIdle /\ RegIdle

SpecLook == LookSpecInit /\ [][LookNext]_vars

\* The generator is exhausted.
LookDone == li > Len(lruns) /\ lk > Len(lmap)

\* What look_multiple did for one id.
EventsOf(id) == SelectSeq(levents, LAMBDA e : e.id = id)
YieldsOf(id) == SelectSeq(levents, LAMBDA e : e.id = id /\ e.kind = "yield")
CallsOf(kind, id) == SelectSeq(levents, LAMBDA e : e.id = id /\ e.kind = kind)

\* The positions of runs whose name is the id, and those that only contain it.
ExactOf(id) == {j \in DOMAIN lruns : lruns[j].name = id}
PartialOf(id) == {j \in DOMAIN lruns : lruns[j].name # id /\ IsSubstr(id, lruns[j].name)}
IdsGiven == {lids[i] : i \in DOMAIN lids}

\* C6: an id that is the name of exactly one record yields that record, however
\* many other records contain the id and in whatever order the records come.
C6_ExactMatchPriority ==
    LookDone =>
        \A id \in IdsGiven :
            Cardinality(ExactOf(id)) = 1 =>
                /\ Len(YieldsOf(id)) = 1
                /\ \A j \in ExactOf(id) : YieldsOf(id)[1].rec = lruns[j]

\* An exact match was yielded although a partial match came before it in runs.
C6_Witness ==
    /\ LookDone
    /\ \E id \in IdsGiven :
          /\ Cardinality(ExactOf(id)) = 1
          /\ \E j \in PartialOf(id) : \A x \in ExactOf(id) : j < x
          /\ Len(YieldsOf(id)) = 1

\* C7: an id that is no record's name and is contained in two or more names
\* has the ambiguous callback called once, with that id, and yields nothing.
C7_AmbiguousPartial ==
    LookDone =>
        \A id \in IdsGiven :
            (ExactOf(id) = {} /\ Cardinality(PartialOf(id)) >= 2) =>
                /\ Len(CallsOf("ambiguous", id)) = 1
                /\ Len(YieldsOf(id)) = 0
                /\ Len(CallsOf("not_found", id)) = 0

\* An ambiguous id that was given twice was reported once.
C7_Witness ==
    /\ LookDone
    /\ \E i, j \in DOMAIN lids :
          /\ i # j /\ lids[i] = lids[j]
          /\ ExactOf(lids[i]) = {} /\ Cardinality(PartialOf(lids[i])) >= 2
          /\ Len(CallsOf("ambiguous", lids[i])) = 1

\* The outcome the resolver's rules give an id, from the records alone.
ExpectedKind(id) ==
    IF ExactOf(id) # {}
    THEN IF Cardinality(ExactOf(id)) > 1 THEN "ambiguous" ELSE "yield"
    ELSE IF PartialOf(id) # {}
    THEN IF Cardinality(PartialOf(id)) > 1 THEN "ambiguous" ELSE "yield"
    ELSE "not_found"

\* C8: every distinct id gets one outcome (a yielded record, an ambiguous call
\* or a not_found call), the one its own matches decide, whatever the outcomes
\* of the other ids; every key taken so far has its outcome.
C8_OneOutcomePerId ==
    /\ li > Len(lruns) => Len(levents) = lk - 1
    /\ \A i \in DOMAIN levents : levents[i].id \in IdsGiven
    /\ LookDone =>
          \A id \in IdsGiven :
              /\ Len(EventsOf(id)) = 1
              /\ EventsOf(id)[1].kind = ExpectedKind(id)

\* A record was yielded for an id that came after an ambiguous id and after an
\* id that was not found.
C8_Witness ==
    /\ LookDone
    /\ Len(levents) = 3
    /\ levents[1].kind = "ambiguous"
    /\ levents[2].kind = "not_found"
    /\ levents[3].kind = "yield"

(***************************************************************************)
(* The registry: Spawn (spawn.py) and the commands of cli.py.              *)
(***************************************************************************)
MaxPid == 2
MaxCmds == 2
MaxSeqCmds == 5

\* The invocations that can be in flight at once (two terminal sessions).
Slots == {"s1", "s2"}
Pids == 1..MaxPid

\* The logical names used: both slugify to "a", and the first is a substring
\* of the second.
RegNames == {<<"a">>, <<"a", "!">>}

\* The id lists given to kill, clean and restart: an exact name (which the
\* other name contains), a partial id, and a batch of the two.
RegIds == {<<<<"a">>>>, <<<<"!">>>>, <<<<"!">>, <<"a">>>>}

\* argv of the command run; its content plays no part before it is restarted.
Cmds == {<<"sleep">>}

\* out_file and err_file when given.
CustomOut == <<"o">>
CustomErr == <<"e">>

\* The characters of the model that [a-zA-Z0-9_.+-] accepts.
SafeChars == {"a", "b", "_", "-", ".", "+"}

RECURSIVE DropWhileIn(_, _)
DropWhileIn(str, S) ==
    IF str # <<>> /\ Head(str) \in S THEN DropWhileIn(Tail(str), S) ELSE str

RECURSIVE SubRuns(_, _, _)
\* re.sub(r"[S]+", repl, str): every maximal run of characters of S becomes repl.
SubRuns(str, S, repl) ==
    IF str = <<>> THEN <<>>
    ELSE IF Head(str) \in S THEN <<repl>> \o SubRuns(DropWhileIn(str, S), S, repl)
    ELSE <<Head(str)>> \o SubRuns(Tail(str), S, repl)

RECURSIVE DropLastWhile(_, _)
DropLastWhile(str, c) ==
    IF str # <<>> /\ str[Len(str)] = c
    THEN DropLastWhile(SubSeq(str, 1, Len(str) - 1), c) ELSE str

\* str.strip(c)
Strip(str, c) == DropLastWhile(DropWhileIn(str, {c}), c)

\* The characters a name of the model is made of.
NameChars == {"a", "b", "!", " ", "_", "-", ".", "+"}

\* slugify(value), utils.py 10-14.
slugify(value) ==
    LET step1 == SubRuns(value, NameChars \ SafeChars, "_")
        step2 == SubRuns(step1, {"_", "-"}, "_")
    IN  Strip(step2, "_")

\* s[:k]
Take(str, k) == SubSeq(str, 1, IF Len(str) < k THEN Len(str) ELSE k)

SlugLen == 24
DigestLen == 24

\* Two hexadecimal digits per character.
CharHex ==
    [c \in NameChars |->
        CASE c = "a" -> <<"6", "1">> [] c = "b" -> <<"6", "2">>
          [] c = "!" -> <<"2", "1">> [] c = " " -> <<"2", "0">>
          [] c = "_" -> <<"5", "f">> [] c = "-" -> <<"2", "d">>
          [] c = "." -> <<"2", "e">> [] c = "+" -> <<"2", "b">>]

RECURSIVE HexDigest(_)
\* md5(name).hexdigest(). md5 itself is not computed: the digest is stood in
\* for by a text that differs for different names (the hexadecimal code of the
\* name), which is what md5 gives for the handful of names of the model.
HexDigest(name) ==
    IF name = <<>> THEN <<>> ELSE CharHex[Head(name)] \o HexDigest(Tail(name))

\* A base name made of the slug alone.
get_base_name_slug_only(name) == Take(slugify(name), SlugLen)

\* get_base_name(name), utils.py 164-168.
get_base_name(name) ==
    Take(slugify(name), SlugLen) \o <<"_">> \o Take(HexDigest(name), DigestLen)

\* base_name = get_base_name(name) (spawn.py 31), for the names of the model.
BaseNames == [name \in RegNames |-> get_base_name(name)]

\* The paths spawn derives from a name (spawn.py 35, 49, 53, 54).
RunPath(name) == BaseNames[name] \o <<".run.json">>
LogPath(name) == BaseNames[name] \o <<".log">>
OutLogPath(name) == BaseNames[name] \o <<".out.log">>
ErrLogPath(name) == BaseNames[name] \o <<".err.log">>

\* process_info before it is filled in.
NoInfo ==
    [name |-> <<>>, pid |-> 0, started |-> 0, uuid |-> 0,
     out |-> <<>>, err |-> <<>>, cmd |-> <<>>, file |-> <<>>]

\* A process table entry of no process.
NoProc == [st |-> "free", name |-> <<>>]

\* ---- the file system
Exists(path) == path \in DOMAIN files

\* open(path, "w") or a successful open(path, "x"): the file is created, or
\* truncated when it exists; a file that is created is a new inode.
OpenWrite(fs, path, ino) ==
    [q \in DOMAIN fs \cup {path} |->
        IF q = path
        THEN [ino |-> IF path \in DOMAIN fs THEN fs[path].ino ELSE ino, data |-> <<>>]
        ELSE fs[q]]

\* Writing through an open file: it reaches the path only while the path still
\* names the inode that was opened.
WriteData(fs, path, ino, data) ==
    IF path \in DOMAIN fs /\ fs[path].ino = ino
    THEN [fs EXCEPT ![path] = [ino |-> ino, data |-> data]]
    ELSE fs

\* Path(path).unlink(missing_ok=True)
Unlink(fs, path) == [q \in DOMAIN fs \ {path} |-> fs[q]]

RECURSIVE SeqOfSet(_)
\* The elements of a set in some order (the order of iterdir() is incidental).
SeqOfSet(S) ==
    IF S = {} THEN <<>>
    ELSE LET x == CHOOSE y \in S : TRUE IN <<x>> \o SeqOfSet(S \ {x})

\* Spawn.all(), spawn.py 74-91: the files named *.run.json that are not empty,
\* each parsed, with its path under "file".
all(fs) ==
    LET paths == {q \in DOMAIN fs : q[Len(q)] = ".run.json" /\ fs[q].data # <<>>}
        order == SeqOfSet(paths)
    IN  [k \in 1..Len(order) |-> [fs[order[k]].data[1] EXCEPT !.file = order[k]]]

RECURSIVE ScanAll(_, _)
\* The first loop of look_multiple, over all of runs.
ScanAll(map, runs) ==
    IF runs = <<>> THEN map ELSE ScanAll(ScanItem(map, Head(runs)), Tail(runs))

RECURSIVE ResolveAll(_)
\* The second loop of look_multiple, over all of map_ids.
ResolveAll(map) ==
    IF map = <<>> THEN <<>> ELSE ResolveEntry(Head(map)) \o ResolveAll(Tail(map))

\* look_multiple(ids, runs, ...) run to its end: its events in order.
look_multiple(ids, runs) == ResolveAll(ScanAll(InitMap(ids), runs))

\* The records of a list of events.
RecsOf(events) ==
    LET ys == SelectSeq(events, LAMBDA e : e.kind = "yield")
    IN  [k \in 1..Len(ys) |-> ys[k].rec]

\* Spawn.find_names(ids, ambiguous, not_found): the records the ids resolve
\* to, and every record when no id is given.
find_names(ids, fs) ==
    IF ids = <<>> THEN all(fs) ELSE RecsOf(look_multiple(ids, all(fs)))

\* A lookup that passes over the record of a process that has ended (not what
\* the code does).
find_name_alive(name, fs) ==
    SelectSeq(all(fs), LAMBDA d : d.name = name /\ procs[d.pid].st # "free")

\* Spawn.find_name(name): the record of that exact name, if any, as a list of
\* at most one record.
find_name(name, fs) == SelectSeq(all(fs), LAMBDA d : d.name = name)

\* Spawn.drop(d): the backing file of the record is deleted if it is there.
drop(fs, d) == Unlink(fs, d.file)

\* check_pid(pid), utils.py 133-145: the process exists.
check_pid(pid) == procs[pid].st # "free"

\* ---- an invocation
IdleInv ==
    [cmd |-> "idle", pc |-> "idle", name |-> <<>>, args |-> <<>>,
     overwrite |-> FALSE, merged_output |-> TRUE, out_file |-> <<>>, err_file |-> <<>>,
     info |-> NoInfo, ino |-> 0, ids |-> <<>>, dry_run |-> FALSE, remove |-> FALSE,
     todo |-> <<>>, rtodo |-> <<>>, outcome |-> "",
     \* the prefix of the last status line the command printed
     said |-> "",
     \* kept for the properties, never read by the commands: the uuid of the
     \* record of the name that was there when the spawn or run began, or of
     \* the only record the ids of a status, kill or clean resolved to (0:
     \* none); whether no file of the name was there when run checked; how many
     \* other runs of the name it overlapped with between check and end
     \* ("none", "one", "many"); how many records the command dropped; whether
     \* every recorded process was dead when clean resolved its ids; whether
     \* the clean follows at once a clean of the same ids that met only dead
     \* processes ("no", or "after_some" and "after_none" by what that clean
     \* dropped); how far the command took the life of the record of seen
     \* (see Lifecycle below).
     seen |-> 0, fresh |-> FALSE, raced |-> "none", removed |-> 0,
     dead0 |-> FALSE, again |-> "no", chain |-> 0]

\* An open that never raises: the mode is always "w".
OpenRaisesNever(i, path) == FALSE

\* An open that raises FileExistsError on a file that is there, whatever the
\* mode (not what the code does).
OpenRaisesAlways(i, path) == Exists(path)

\* mode = "w" if overwrite else "x" (spawn.py 36): an exclusive open of a path
\* that exists raises FileExistsError.
OpenRaises(i, path) == ~i.overwrite /\ Exists(path)

\* so and se of spawn (spawn.py 48-54).
SoPath(i) ==
    IF i.out_file # <<>> THEN i.out_file
    ELSE IF i.merged_output THEN LogPath(i.name) ELSE OutLogPath(i.name)
SePath(i) ==
    IF i.merged_output THEN SoPath(i)
    ELSE IF i.err_file # <<>> THEN i.err_file ELSE ErrLogPath(i.name)

\* The invocation is over, with a result or with the exception it raised; what
\* it was, the pid it launched and what came of it stay readable until the
\* slot is used again.
Ended(i, outcome) ==
    [IdleInv EXCEPT !.cmd = i.cmd, !.pc = "done", !.name = i.name,
                    !.overwrite = i.overwrite,
                    !.info = [NoInfo EXCEPT !.pid = i.info.pid, !.uuid = i.info.uuid],
                    !.ids = i.ids, !.dry_run = i.dry_run, !.remove = i.remove,
                    !.said = i.said,
                    !.outcome = outcome, !.seen = i.seen, !.fresh = i.fresh,
                    !.raced = i.raced, !.removed = i.removed, !.dead0 = i.dead0,
                    !.again = i.again, !.chain = i.chain]

\* Restart.start goes to its next record: Kill().main(["--remove", name]).
NextRestart(i) ==
    IF i.rtodo = <<>> THEN Ended(i, i.outcome)
    ELSE [i EXCEPT !.pc = "kresolve", !.ids = <<Head(i.rtodo).name>>,
                   !.dry_run = FALSE, !.remove = TRUE, !.todo = <<>>]

\* Kill.start is over; inside Restart, Run().main(["--id", name, ..., *cmd]) follows.
AfterKill(i) ==
    IF i.cmd = "restart"
    THEN [i EXCEPT !.pc = "find", !.name = Head(i.rtodo).name,
                   !.args = Head(i.rtodo).cmd, !.overwrite = FALSE,
                   !.merged_output = TRUE, !.out_file = <<>>, !.err_file = <<>>,
                   !.info = NoInfo, !.ino = 0, !.todo = <<>>,
                   !.seen = 0, !.fresh = FALSE, !.raced = "none"]
    ELSE Ended(i, "")

\* Run.start is over without an exception; inside Restart the loop goes on.
AfterRun(i, outcome) ==
    IF i.cmd = "restart"
    THEN NextRestart([i EXCEPT !.outcome = outcome, !.rtodo = Tail(@)])
    ELSE Ended(i, outcome)

Init ==
    /\ files = <<>>
    /\ procs = [pid \in Pids |-> NoProc]
    /\ inv = [p \in Slots |-> IdleInv]
    /\ clock = 0
    /\ ncmd = 0
    /\ TailIdle
    /\ LookIdle

\* A slot is free for a new command. The slots are interchangeable, so a new
\* command takes the first one that is free.
SlotFree(p) == inv[p].pc \in {"idle", "done"}

\* The commands come one after the other: every other slot is switched off.
Sequential(p) == \A q \in Slots \ {p} : inv[q].pc = "off"

\* The commands that may be invoked in all: more of them when they come one
\* after the other.
CmdBudget == IF \E p \in Slots : inv[p].pc = "off" THEN MaxSeqCmds ELSE MaxCmds

CanStart(p) ==
    /\ SlotFree(p)
    /\ p = "s2" => ~SlotFree("s1")
    /\ ncmd < CmdBudget

\* The uuid of the record in the run file of a name, 0 when there is none.
RecordUuid(name) ==
    IF Exists(RunPath(name)) /\ files[RunPath(name)].data # <<>>
    THEN files[RunPath(name)].data[1].uuid ELSE 0

\* Some other Run of the same name (called from the command line or by
\* Restart) is past its check and not yet over.
RacesWith(i, p, q) ==
    /\ q # p
    /\ inv[q].cmd \in {"run", "restart"} /\ inv[q].name = i.name
    /\ inv[q].pc \in {"open_out", "popen", "open_run", "dump"}

\* One more overlapping run for a run that overlapped with r already.
OneMore(r) == IF r = "none" THEN "one" ELSE "many"

\* The overlap of a run that begins while the runs of the slots in racing are
\* in flight: "one" when it is a single run that overlapped with no other.
Overlap(racing) ==
    IF racing = {} THEN "none"
    ELSE IF Cardinality(racing) = 1 /\ \A q \in racing : inv[q].raced = "none" THEN "one"
    ELSE "many"

\* e = sp.find_name(name); if e: "Found", else: sp.spawn(args, name,
\* overwrite=...) (cli.py 178-188), by the invocation i of slot p.
RunFindStep(p, i) ==
    /\ LET e == find_name(i.name, files)
           racing == {q \in Slots : RacesWith(i, p, q)}
       IN  inv' = [q \in Slots |->
                     IF q = p
                     THEN IF e # <<>> THEN AfterRun([i EXCEPT !.seen = e[1].uuid], "Found")
                          ELSE [i EXCEPT !.pc = "open_out", !.raced = Overlap(racing),
                                         !.seen = 0,
                                         !.fresh = ~Exists(RunPath(i.name))
                                                   /\ ~Exists(LogPath(i.name))]
                     ELSE IF e = <<>> /\ q \in racing THEN [inv[q] EXCEPT !.raced = OneMore(@)]
                     ELSE inv[q]]
    /\ UNCHANGED <<files, procs, clock>>

\* po_kwa["stdout"] = so.open(f"{mode}b") (spawn.py 50, 55).
OpenOutStep(p, i) ==
    /\ IF OpenRaises(i, SoPath(i))
       THEN /\ inv' = [inv EXCEPT ![p] = Ended(i, "FileExistsError")]
            /\ UNCHANGED files
       ELSE /\ files' = OpenWrite(files, SoPath(i), 0)
            /\ inv' = [inv EXCEPT ![p] =
                         [i EXCEPT !.pc = IF i.merged_output THEN "popen" ELSE "open_err"]]
    /\ UNCHANGED <<procs, clock>>

\* What a status or a kill keeps of the records its ids resolved to: the uuid
\* of the record when it is a single one, and how far the command before it in
\* the slot took the life of that very record.
Met(p, i, found) ==
    IF Len(found) = 1
    THEN [i EXCEPT !.seen = found[1].uuid,
                   !.chain = IF inv[p].pc = "done" /\ inv[p].seen = found[1].uuid
                                /\ i.cmd # "restart"
                             THEN inv[p].chain ELSE 0]
    ELSE [i EXCEPT !.seen = 0, !.chain = 0]

\* for x in sp.find_names(self.ids, ambiguous, no_record) (cli.py 102): the
\* records are read and the ids resolved when the loop starts.
KillResolveStep(p, i) ==
    /\ LET found == find_names(i.ids, files)
           j == Met(p, i, found)
       IN  inv' = [inv EXCEPT ![p] = IF found = <<>> THEN AfterKill([j EXCEPT !.chain = 0])
                                     ELSE [j EXCEPT !.pc = "kill_one", !.todo = found]]
    /\ UNCHANGED <<files, procs, clock>>

\* runce run [--overwrite] --id name args (cli.py 172-188), up to the check
\* for an existing record.
RunStart(p) ==
    /\ CanStart(p)
    /\ \E name \in RegNames, ow \in BOOLEAN, args \in Cmds :
          RunFindStep(p, [IdleInv EXCEPT !.cmd = "run", !.name = name, !.args = args,
                                         !.overwrite = ow])
    /\ ncmd' = ncmd + 1
    /\ UNCHANGED notReg

\* Run.start as Restart calls it (cli.py 243).
RestartRun(p) ==
    /\ inv[p].pc = "find"
    /\ RunFindStep(p, inv[p])
    /\ UNCHANGED ncmd
    /\ UNCHANGED notReg

\* Spawn().spawn(cmd, name, merged_output, overwrite, out_file, err_file)
\* called directly (spawn.py 19-50), up to the opening of the output file.
SpawnStart(p) ==
    /\ CanStart(p)
    /\ \E name \in RegNames, ow \in BOOLEAN, mo \in BOOLEAN, args \in Cmds,
          of \in {<<>>, CustomOut}, ef \in {<<>>, CustomErr} :
          /\ ef = <<>> /\ (~mo => of = <<>>)
          /\ OpenOutStep(p, [IdleInv EXCEPT !.cmd = "spawn", !.name = name, !.args = args,
                                !.overwrite = ow, !.merged_output = mo,
                                !.out_file = of, !.err_file = ef,
                                !.seen = RecordUuid(name)])
    /\ ncmd' = ncmd + 1
    /\ UNCHANGED notReg

\* sp.spawn(...) as Run.start calls it (cli.py 184): merged_output, out_file
\* and err_file keep their defaults.
SpawnOpenOut(p) ==
    /\ inv[p].pc = "open_out"
    /\ OpenOutStep(p, inv[p])
    /\ UNCHANGED ncmd
    /\ UNCHANGED notReg

\* po_kwa["stderr"] = se.open(f"{mode}b") (spawn.py 56).
SpawnOpenErr(p) ==
    /\ inv[p].pc = "open_err"
    /\ IF OpenRaises(inv[p], SePath(inv[p]))
       THEN /\ inv' = [inv EXCEPT ![p] = Ended(@, "FileExistsError")]
            /\ UNCHANGED files
       ELSE /\ files' = OpenWrite(files, SePath(inv[p]), 0)
            /\ inv' = [inv EXCEPT ![p].pc = "popen"]
    /\ UNCHANGED <<procs, clock, ncmd>>
    /\ UNCHANGED notReg

\* The pids some record or invocation still mentions.
PidsOfSeq(recs) == {recs[k].pid : k \in DOMAIN recs}
KnownPids ==
    UNION {PidsOfSeq(files[q].data) : q \in DOMAIN files}
    \cup UNION {{inv[p].info.pid} \cup PidsOfSeq(inv[p].todo) \cup PidsOfSeq(inv[p].rtodo) :
                 p \in Slots}

\* The pids the OS can give a new process: any pid no live process has. The
\* pids nothing mentions are interchangeable, so the lowest stands for them.
NewPids ==
    LET free == {pid \in Pids : procs[pid].st = "free"}
        fresh == free \ KnownPids
    IN  (free \cap KnownPids)
        \cup (IF fresh = {} THEN {} ELSE {CHOOSE x \in fresh : \A y \in fresh : x <= y})

\* process_info = {...}; process_info["pid"] = Popen(cmd, **po_kwa).pid
\* (spawn.py 58-67). The OS gives the new process a pid no live process has.
SpawnPopen(p) ==
    /\ inv[p].pc = "popen"
    /\ \E pid \in NewPids :
          /\ procs' = [procs EXCEPT ![pid] = [st |-> "run", name |-> inv[p].name]]
          /\ inv' = [inv EXCEPT ![p].pc = "open_run",
                                ![p].info = [name |-> inv[p].name, pid |-> pid,
                                             started |-> clock + 1, uuid |-> clock + 1,
                                             out |-> SoPath(inv[p]), err |-> SePath(inv[p]),
                                             cmd |-> inv[p].args, file |-> <<>>]]
    /\ clock' = clock + 1
    /\ UNCHANGED <<files, ncmd>>
    /\ UNCHANGED notReg

\* Popen raises: the command cannot be executed, no process can be created,
\* or Popen refuses a keyword of po_kwa (Run.start passes split=, which spawn
\* hands on to Popen).
SpawnPopenRaises(p) ==
    /\ inv[p].pc = "popen"
    /\ inv' = [inv EXCEPT ![p] = Ended(@, "PopenError")]
    /\ UNCHANGED <<files, procs, clock, ncmd>>
    /\ UNCHANGED notReg

\* with run_file.open(mode) as f (spawn.py 69).
SpawnOpenRun(p) ==
    /\ inv[p].pc = "open_run"
    /\ IF OpenRaises(inv[p], RunPath(inv[p].name))
       THEN /\ inv' = [inv EXCEPT ![p] = Ended(@, "FileExistsError")]
            /\ UNCHANGED files
       ELSE /\ files' = OpenWrite(files, RunPath(inv[p].name), inv[p].info.uuid)
            /\ inv' = [inv EXCEPT ![p].pc = "dump",
                                  ![p].ino = files'[RunPath(inv[p].name)].ino]
    /\ UNCHANGED <<procs, clock, ncmd>>
    /\ UNCHANGED notReg

\* dump(process_info, f, indent=True); return process_info (spawn.py 70-72).
SpawnDump(p) ==
    /\ inv[p].pc = "dump"
    /\ files' = WriteData(files, RunPath(inv[p].name), inv[p].ino, <<inv[p].info>>)
    /\ inv' = [inv EXCEPT ![p] = AfterRun(@, "Started")]
    /\ UNCHANGED <<procs, clock, ncmd>>
    /\ UNCHANGED notReg

\* runce kill [--dry-run] [--remove] ids (cli.py 99-102).
KillStart(p) ==
    /\ CanStart(p)
    /\ \E ids \in RegIds, dry \in BOOLEAN, rm \in BOOLEAN :
          KillResolveStep(p, [IdleInv EXCEPT !.cmd = "kill", !.ids = ids,
                                             !.dry_run = dry, !.remove = rm])
    /\ ncmd' = ncmd + 1
    /\ UNCHANGED notReg

\* Kill.start as Restart calls it (cli.py 241).
RestartKill(p) ==
    /\ inv[p].pc = "kresolve"
    /\ KillResolveStep(p, inv[p])
    /\ UNCHANGED ncmd
    /\ UNCHANGED notReg

\* killpg(pgid, SIGTERM): the signal is pending on the group of the process,
\* which is its own group leader (start_new_session, spawn.py 38).
killpg(pr, pgid) == [pr EXCEPT ![pgid].st = "term"]

\* A kill that signals also on a dry run (not what the code does).
KillSignalsAlways(i) == TRUE

\* if not self.dry_run: killpg(pgid, signal.SIGTERM) (cli.py 107-108).
KillSignals(i) == ~i.dry_run

\* A kill that drops whatever its flags are (not what the code does).
KillDropsAlways(i) == TRUE

\* A kill that drops whenever --remove is given (not what the code does).
KillDropsOnRemove(i) == i.remove

\* if not self.dry_run and self.remove: sp.drop(x) (cli.py 113-114).
KillDrops(i) == ~i.dry_run /\ i.remove

\* A kill that says Killed whatever getpgid does (not what the code does).
KillPrefAlwaysKilled(found) == "Killed"

\* pref of Kill.start (cli.py 104-111) when no other exception is raised:
\* getpgid raises ProcessLookupError when the pid is not there.
KillPref(found) == IF found THEN "Killed" ELSE "Not found"

\* How far a kill that is over took the life of the record of seen.
ChainKill(i) ==
    IF i.seen # 0 /\ i.chain = 1 /\ ~i.dry_run /\ ~i.remove THEN 2 ELSE 0

\* One turn of the loop of Kill.start (cli.py 103-114) in which no exception
\* other than ProcessLookupError is raised.
KillOne(p) ==
    /\ inv[p].pc = "kill_one"
    /\ LET x == Head(inv[p].todo)
           rest == Tail(inv[p].todo)
           i == [inv[p] EXCEPT !.todo = rest, !.said = KillPref(check_pid(x.pid)),
                               !.removed = IF KillDrops(inv[p]) /\ Exists(x.file)
                                           THEN @ + 1 ELSE @]
       IN  /\ procs' = IF check_pid(x.pid) /\ KillSignals(inv[p])
                       THEN killpg(procs, x.pid) ELSE procs
           /\ files' = IF KillDrops(inv[p]) THEN drop(files, x) ELSE files
           /\ inv' = [inv EXCEPT ![p] = IF rest = <<>>
                                         THEN AfterKill([i EXCEPT !.chain = ChainKill(i)])
                                         ELSE i]
    /\ UNCHANGED <<clock, ncmd>>
    /\ UNCHANGED notReg

\* One turn of the loop of Kill.start (cli.py 103-114) in which killpg raises
\* PermissionError (the process runs under another user by now): pref stays
\* "Error", the finally clause prints the line and drops the record under
\* --remove, and the exception leaves the loop and Kill.start, and Restart
\* when it is Restart that called.
KillOneDenied(p) ==
    /\ inv[p].pc = "kill_one"
    /\ LET x == Head(inv[p].todo)
           i == [inv[p] EXCEPT !.said = "Error", !.chain = 0,
                               !.removed = IF KillDrops(inv[p]) /\ Exists(x.file)
                                           THEN @ + 1 ELSE @]
       IN  /\ check_pid(x.pid) /\ KillSignals(inv[p])
           /\ files' = IF KillDrops(inv[p]) THEN drop(files, x) ELSE files
           /\ inv' = [inv EXCEPT ![p] = Ended(i, "PermissionError")]
    /\ UNCHANGED <<procs, clock, ncmd>>
    /\ UNCHANGED notReg

\* Every process of a record is dead.
AllDead == \A k \in DOMAIN all(files) : ~check_pid(all(files)[k].pid)

\* How far a clean over all records that is over took the life of the record
\* of seen, c being how far the command before it had taken it.
ChainClean(i, c) == IF i.ids = <<>> /\ c = 3 THEN 4 ELSE IF i.ids = <<>> /\ c = 4 THEN 5 ELSE 0

\* runce clean [ids] (cli.py 59-61), up to the resolution of the ids.
CleanStart(p) ==
    /\ CanStart(p)
    /\ \E ids \in RegIds \cup {<<>>} :
          LET found == find_names(ids, files)
              before == inv[p].pc = "done" /\ Sequential(p)
              i == [IdleInv EXCEPT !.cmd = "clean", !.ids = ids,
                                   !.dead0 = AllDead,
                                   !.again = IF before /\ inv[p].cmd = "clean"
                                                /\ inv[p].ids = ids /\ inv[p].dead0
                                             THEN (IF inv[p].removed > 0 THEN "after_some"
                                                   ELSE "after_none")
                                             ELSE "no",
                                   !.seen = IF before THEN inv[p].seen ELSE 0,
                                   !.chain = IF before THEN inv[p].chain ELSE 0]
          IN  inv' = [inv EXCEPT ![p] =
                        IF found = <<>>
                        THEN Ended([i EXCEPT !.chain = ChainClean(i, i.chain)], "")
                        ELSE [i EXCEPT !.pc = "clean_one", !.todo = found]]
    /\ ncmd' = ncmd + 1
    /\ UNCHANGED <<files, procs, clock>>
    /\ UNCHANGED notReg

\* A clean that drops whatever check_pid says (not what the code does).
CleanSkipsNever(pid) == FALSE

\* A clean that drops nothing (not what the code does).
CleanSkipsAlways(pid) == TRUE

\* if check_pid(d["pid"]): continue (cli.py 62-63).
CleanSkips(pid) == check_pid(pid)

\* One turn of the loop of Clean.start (cli.py 62-65).
CleanOne(p) ==
    /\ inv[p].pc = "clean_one"
    /\ LET d == Head(inv[p].todo)
           rest == Tail(inv[p].todo)
           i == [inv[p] EXCEPT !.todo = rest,
                               !.said = IF CleanSkips(d.pid) THEN @ ELSE "Cleaning",
                               !.removed = IF ~CleanSkips(d.pid) /\ Exists(d.file)
                                           THEN @ + 1 ELSE @]
       IN  /\ files' = IF CleanSkips(d.pid) THEN files ELSE drop(files, d)
           /\ inv' = [inv EXCEPT ![p] =
                        IF rest = <<>>
                        THEN Ended([i EXCEPT !.chain = ChainClean(i, i.chain)], "")
                        ELSE i]
    /\ UNCHANGED <<procs, clock, ncmd>>
    /\ UNCHANGED notReg

\* A status label that never says Absent (not what the code does).
pid_status_always_running(pid) == "Running"

\* FormatDict.__missing__("pid_status") (cli.py 26-27).
pid_status(pid) == IF check_pid(pid) THEN "Running" ELSE "Absent"

\* How far a status that is over took the life of the record of seen: 1 when
\* its process lives (2 when it has been signalled and lives on), 3 when it
\* is dead after a kill.
ChainStatus(i, alive) ==
    IF i.seen = 0 THEN 0
    ELSE IF alive THEN (IF i.chain = 2 THEN 2 ELSE 1)
    ELSE IF i.chain = 2 THEN 3 ELSE 0

\* runce status [ids] (cli.py 82-84), up to the resolution of the ids.
StatusStart(p) ==
    /\ CanStart(p)
    /\ \E ids \in RegIds \cup {<<>>} :
          LET found == find_names(ids, files)
              i == Met(p, [IdleInv EXCEPT !.cmd = "status", !.ids = ids], found)
          IN  inv' = [inv EXCEPT ![p] = IF found = <<>> THEN Ended([i EXCEPT !.chain = 0], "")
                                        ELSE [i EXCEPT !.pc = "status_one", !.todo = found]]
    /\ ncmd' = ncmd + 1
    /\ UNCHANGED <<files, procs, clock>>
    /\ UNCHANGED notReg

\* print(f(d)) (cli.py 85): one line of Status.start.
StatusOne(p) ==
    /\ inv[p].pc = "status_one"
    /\ LET d == Head(inv[p].todo)
           rest == Tail(inv[p].todo)
           i == [inv[p] EXCEPT !.todo = rest, !.said = pid_status(d.pid)]
       IN  inv' = [inv EXCEPT ![p] =
                     IF rest = <<>>
                     THEN Ended([i EXCEPT !.chain = ChainStatus(i, check_pid(d.pid))], "")
                     ELSE i]
    /\ UNCHANGED <<files, procs, clock, ncmd>>
    /\ UNCHANGED notReg

\* runce list (cli.py 218-222), up to the enumeration of the records.
LsStart(p) ==
    /\ CanStart(p)
    /\ LET found == all(files)
           i == [IdleInv EXCEPT !.cmd = "ls"]
       IN  inv' = [inv EXCEPT ![p] = IF found = <<>> THEN Ended(i, "")
                                     ELSE [i EXCEPT !.pc = "ls_one", !.todo = found]]
    /\ ncmd' = ncmd + 1
    /\ UNCHANGED <<files, procs, clock>>
    /\ UNCHANGED notReg

\* print(f(d)) (cli.py 222): one line of Ls.start.
LsOne(p) ==
    /\ inv[p].pc = "ls_one"
    /\ LET d == Head(inv[p].todo)
           rest == Tail(inv[p].todo)
           i == [inv[p] EXCEPT !.todo = rest, !.said = pid_status(d.pid)]
       IN  inv' = [inv EXCEPT ![p] = IF rest = <<>> THEN Ended(i, "") ELSE i]
    /\ UNCHANGED <<files, procs, clock, ncmd>>
    /\ UNCHANGED notReg

\* runce tail [-x] [ids] (cli.py 131-140), up to the resolution of the ids;
\* dry_run stands for the flag --only-existing.
TailStart(p) ==
    /\ CanStart(p)
    /\ \E ids \in RegIds \cup {<<>>}, existing \in BOOLEAN :
          LET found == find_names(ids, files)
              i == [IdleInv EXCEPT !.cmd = "tail", !.ids = ids, !.dry_run = existing]
          IN  inv' = [inv EXCEPT ![p] = IF found = <<>> THEN Ended(i, "")
                                        ELSE [i EXCEPT !.pc = "tail_one", !.todo = found]]
    /\ ncmd' = ncmd + 1
    /\ UNCHANGED <<files, procs, clock>>
    /\ UNCHANGED notReg

\* One turn of the loop of Tail.start (cli.py 140-158): a record of a dead
\* process is passed over under --only-existing; the header is printed and
\* tail -n reads the file of x["out"].
TailOne(p) ==
    /\ inv[p].pc = "tail_one"
    /\ LET x == Head(inv[p].todo)
           rest == Tail(inv[p].todo)
           i == [inv[p] EXCEPT !.todo = rest,
                               !.said = IF inv[p].dry_run /\ ~check_pid(x.pid)
                                        THEN @ ELSE "Tail"]
       IN  inv' = [inv EXCEPT ![p] = IF rest = <<>> THEN Ended(i, "") ELSE i]
    /\ UNCHANGED <<files, procs, clock, ncmd>>
    /\ UNCHANGED notReg

\* runce restart ids (cli.py 236-239), up to the resolution of the ids.
RestartStart(p) ==
    /\ CanStart(p)
    /\ \E ids \in RegIds :
          inv' = [inv EXCEPT ![p] =
                    NextRestart([IdleInv EXCEPT !.cmd = "restart", !.ids = ids,
                                                !.rtodo = find_names(ids, files)])]
    /\ ncmd' = ncmd + 1
    /\ UNCHANGED <<files, procs, clock>>
    /\ UNCHANGED notReg

\* A process ends: on its own, or on the SIGTERM pending on it.
ProcExit(pid) ==
    /\ procs[pid].st \in {"run", "term"}
    /\ procs' = [procs EXCEPT ![pid] = NoProc]
    /\ UNCHANGED <<files, inv, clock, ncmd>>
    /\ UNCHANGED notReg

Next ==
    \/ \E p \in Slots : RunStart(p)
    \/ \E p \in Slots : SpawnStart(p)
    \/ \E p \in Slots : SpawnOpenOut(p)
    \/ \E p \in Slots : SpawnOpenErr(p)
    \/ \E p \in Slots : SpawnPopen(p)
    \/ \E p \in Slots : SpawnPopenRaises(p)
    \/ \E p \in Slots : SpawnOpenRun(p)
    \/ \E p \in Slots : SpawnDump(p)
    \/ \E p \in Slots : KillStart(p)
    \/ \E p \in Slots : KillOne(p)
    \/ \E p \in Slots : KillOneDenied(p)
    \/ \E p \in Slots : CleanStart(p)
    \/ \E p \in Slots : CleanOne(p)
    \/ \E p \in Slots : RestartStart(p)
    \/ \E p \in Slots : RestartKill(p)
    \/ \E p \in Slots : RestartRun(p)
    \/ \E pid \in Pids : ProcExit(pid)

Spec == Init /\ [][Next]_vars

\* The commands of the command line alone: no direct call of Spawn.spawn.
NextCli ==
    \/ \E p \in Slots : RunStart(p)
    \/ \E p \in Slots : SpawnOpenOut(p)
    \/ \E p \in Slots : SpawnPopen(p)
    \/ \E p \in Slots : SpawnPopenRaises(p)
    \/ \E p \in Slots : SpawnOpenRun(p)
    \/ \E p \in Slots : SpawnDump(p)
    \/ \E p \in Slots : KillStart(p)
    \/ \E p \in Slots : KillOne(p)
    \/ \E p \in Slots : KillOneDenied(p)
    \/ \E p \in Slots : CleanStart(p)
    \/ \E p \in Slots : CleanOne(p)
    \/ \E p \in Slots : RestartStart(p)
    \/ \E p \in Slots : RestartKill(p)
    \/ \E p \in Slots : RestartRun(p)
    \/ \E pid \in Pids : ProcExit(pid)

SpecCli == Init /\ [][NextCli]_vars

\* ---- a registry that has been in use
\* The names in some order, and the place of a name among the names of had.
NameAt == SeqOfSet(RegNames)
Rank(had, name) ==
    Cardinality({j \in 1..Len(NameAt) :
                    /\ NameAt[j] \in had
                    /\ j <= (CHOOSE k \in 1..Len(NameAt) : NameAt[k] = name)})

\* The record that runce run --id name sleep leaves as the k-th launch
\* (spawn.py 48-70).
InitRecord(name, k) ==
    [name |-> name, pid |-> k, started |-> k, uuid |-> k,
     out |-> LogPath(name), err |-> LogPath(name), cmd |-> <<"sleep">>, file |-> <<>>]

\* The data directory after the names of had were run one after the other.
LifeFiles(had) ==
    [q \in {RunPath(n) : n \in had} \cup {LogPath(n) : n \in had} |->
        LET n == CHOOSE m \in had : q \in {RunPath(m), LogPath(m)}
        IN  IF q = RunPath(n)
            THEN [ino |-> Rank(had, n), data |-> <<InitRecord(n, Rank(had, n))>>]
            ELSE [ino |-> 0, data |-> <<>>]]

\* The processes of the names of alive run, the others have ended.
LifeProcs(had, alive) ==
    [pid \in Pids |->
        IF \E n \in alive : Rank(had, n) = pid
        THEN [st |-> "run", name |-> CHOOSE n \in alive : Rank(had, n) = pid]
        ELSE NoProc]

\* A slot that takes no command.
OffInv == [IdleInv EXCEPT !.cmd = "off", !.pc = "off"]

\* The registry after some names were run and some of their processes ended;
\* commands are then invoked concurrently.
LifeInit ==
    /\ \E had \in SUBSET RegNames : \E alive \in SUBSET had :
          /\ files = LifeFiles(had)
          /\ procs = LifeProcs(had, alive)
          /\ clock = Cardinality(had)
    /\ inv = [p \in Slots |-> IdleInv]
    /\ ncmd = 0
    /\ TailIdle
    /\ LookIdle

\* The same registry; commands are then invoked one after the other.
SeqInit ==
    /\ \E had \in SUBSET RegNames : \E alive \in SUBSET had :
          /\ files = LifeFiles(had)
          /\ procs = LifeProcs(had, alive)
          /\ clock = Cardinality(had)
    /\ inv = [p \in Slots |-> IF p = "s1" THEN IdleInv ELSE OffInv]
    /\ ncmd = 0
    /\ TailIdle
    /\ LookIdle

\* Every command, the read-only ones included.
NextLife ==
    \/ \E p \in Slots : RunStart(p)
    \/ \E p \in Slots : SpawnStart(p)
    \/ \E p \in Slots : SpawnOpenOut(p)
    \/ \E p \in Slots : SpawnOpenErr(p)
    \/ \E p \in Slots : SpawnPopen(p)
    \/ \E p \in Slots : SpawnPopenRaises(p)
    \/ \E p \in Slots : SpawnOpenRun(p)
    \/ \E p \in Slots : SpawnDump(p)
    \/ \E p \in Slots : KillStart(p)
    \/ \E p \in Slots : KillOne(p)
    \/ \E p \in Slots : KillOneDenied(p)
    \/ \E p \in Slots : CleanStart(p)
    \/ \E p \in Slots : CleanOne(p)
    \/ \E p \in Slots : RestartStart(p)
    \/ \E p \in Slots : RestartKill(p)
    \/ \E p \in Slots : RestartRun(p)
    \/ \E p \in Slots : StatusStart(p)
    \/ \E p \in Slots : StatusOne(p)
    \/ \E p \in Slots : LsStart(p)
    \/ \E p \in Slots : LsOne(p)
    \/ \E p \in Slots : TailStart(p)
    \/ \E p \in Slots : TailOne(p)
    \/ \E pid \in Pids : ProcExit(pid)

SpecLife == LifeInit /\ [][NextLife]_vars

\* The commands that follow the launches: status, list, tail, kill and clean.
NextSeq ==
    \/ \E p \in Slots : KillStart(p)
    \/ \E p \in Slots : KillOne(p)
    \/ \E p \in Slots : KillOneDenied(p)
    \/ \E p \in Slots : CleanStart(p)
    \/ \E p \in Slots : CleanOne(p)
    \/ \E p \in Slots : StatusStart(p)
    \/ \E p \in Slots : StatusOne(p)
    \/ \E p \in Slots : LsStart(p)
    \/ \E p \in Slots : LsOne(p)
    \/ \E p \in Slots : TailStart(p)
    \/ \E p \in Slots : TailOne(p)
    \/ \E pid \in Pids : ProcExit(pid)

SpecSeq == SeqInit /\ [][NextSeq]_vars

\* A process on which SIGTERM is pending ends: the commands run here keep the
\* default action of the signal.
TermExit(pid) == procs[pid].st = "term" /\ ProcExit(pid)

SpecSeqFair == SeqInit /\ [][NextSeq]_vars /\ \A pid \in Pids : WF_vars(TermExit(pid))

\* The live processes that were launched under a name.
LiveOf(name) == {pid \in Pids : procs[pid].st # "free" /\ procs[pid].name = name}

IsSpawnOver(p) == inv[p].pc = "done" /\ inv[p].cmd \in {"run", "spawn"}

\* A step of slot p that belongs to Spawn.spawn.
SpawnStep(p) ==
    \/ SpawnStart(p) \/ SpawnOpenOut(p) \/ SpawnOpenErr(p) \/ SpawnPopen(p)
    \/ SpawnPopenRaises(p) \/ SpawnOpenRun(p) \/ SpawnDump(p)

C3_NoLaunchOnAlreadyExists ==
    \A p \in Slots :
        (IsSpawnOver(p) /\ ~inv[p].overwrite /\ inv[p].seen # 0
           /\ inv[p].outcome = "FileExistsError")
        => inv[p].info.pid = 0

\* Two runs of one name that both passed the check for an existing record
\* while the other was in flight (and no third run of the name was), and are
\* both over.
RacedPair(p, q) ==
    /\ p # q
    /\ inv[p].cmd = "run" /\ inv[q].cmd = "run"
    /\ inv[p].pc = "done" /\ inv[q].pc = "done"
    /\ inv[p].name = inv[q].name
    /\ inv[p].raced = "one" /\ inv[q].raced = "one"
    /\ inv[p].outcome # "Found" /\ inv[q].outcome # "Found"
    /\ (inv[p].fresh \/ inv[q].fresh)

RunFileOf(fs, name) == IF RunPath(name) \in DOMAIN fs THEN <<fs[RunPath(name)]>> ELSE <<>>

\* C5: different names have different backing files; no step of a spawn under
\* one name changes the run file or the record of another name, and a spawn
\* that writes its record makes it the record of its own name.
C5_DistinctNamesDoNotCollide ==
    [][\A p \in Slots :
        SpawnStep(p) =>
            /\ \A a, b \in RegNames : a # b => RunPath(a) # RunPath(b)
            /\ \A other \in RegNames \ {inv'[p].name} :
                  /\ RunFileOf(files', other) = RunFileOf(files, other)
                  /\ find_name(other, files') = find_name(other, files)
            /\ (SpawnDump(p) /\ RunFileOf(files', inv[p].name) # RunFileOf(files, inv[p].name))
                 => (/\ Len(find_name(inv[p].name, files')) = 1
                     /\ find_name(inv[p].name, files')[1].uuid = inv[p].info.uuid
                     /\ find_name(inv[p].name, files')[1].name = inv[p].name)
      ]_vars

\* Two spawns under different names are over and enumeration holds the record
\* of each.
C5_Witness ==
    \E p, q \in Slots :
        /\ IsSpawnOver(p) /\ IsSpawnOver(q)
        /\ inv[p].name # inv[q].name
        /\ inv[p].outcome = "Started" /\ inv[q].outcome = "Started"
        /\ RecordUuid(inv[p].name) = inv[p].info.uuid
        /\ RecordUuid(inv[q].name) = inv[q].info.uuid
        /\ Len(all(files)) = 2

\* A clean that is over.
CleanOver(p) == inv[p].pc = "done" /\ inv[p].cmd = "clean"

\* C12 as stated: a clean that follows at once a clean of the same arguments
\* that met only dead processes drops nothing and raises no error.
C12_CleanIdempotent ==
    \A p \in Slots :
        (CleanOver(p) /\ inv[p].again # "no") =>
            (inv[p].removed = 0 /\ inv[p].outcome = "")

\* C12 as amended: a clean over all records (no ids) that meets only dead
\* processes leaves no record, and a clean over all records that follows it at
\* once drops nothing, raises no error and leaves the registry empty.
C12_CleanAllIdempotent ==
    \A p \in Slots :
        (CleanOver(p) /\ inv[p].ids = <<>>) =>
            /\ (inv[p].dead0 /\ Sequential(p)) =>
                  (all(files) = <<>> /\ inv[p].outcome = "")
            /\ inv[p].again # "no" =>
                  (inv[p].removed = 0 /\ inv[p].outcome = "" /\ all(files) = <<>>)

\* A second clean over all records is over: the first had dropped records, the
\* second dropped none.
C12_Witness ==
    \E p \in Slots :
        /\ CleanOver(p) /\ inv[p].ids = <<>>
        /\ inv[p].again = "after_some" /\ inv[p].removed = 0

\* The records of fs that are no longer records of gs, as they were.
LostRecords(fs, gs) ==
    {d \in {all(fs)[k] : k \in DOMAIN all(fs)} :
        \A j \in DOMAIN all(gs) : all(gs)[j] # d}

KillOver(p) == inv[p].pc = "done" /\ inv[p].cmd = "kill"

\* The registry holds the record of that uuid.
HasUuid(u) == \E k \in DOMAIN all(files) : all(files)[k].uuid = u

\* C14: when killpg fails for a reason other than a missing process
\* (permission denied), the line says Error and the record stays in the
\* registry, also under --remove.
C14_DeniedKillKeepsRecord ==
    [][\A p \in Slots :
        KillOneDenied(p) => (inv'[p].said = "Error" /\ files' = files)
      ]_vars

\* C15: a kill over several records that is denied on one of them goes on to
\* the records that remain.
C15_DeniedKillGoesOn ==
    [][\A p \in Slots :
        (KillOneDenied(p) /\ Tail(inv[p].todo) # <<>>) =>
            (inv'[p].pc = "kill_one" /\ inv'[p].todo = Tail(inv[p].todo))
      ]_vars

\* C16: no step of a kill --dry-run signals a process or removes a record,
\* with --remove or without; resolving the ids changes nothing either.
C16_DryRunKillChangesNothing ==
    [][\A p \in Slots :
        /\ KillStart(p) => (procs' = procs /\ files' = files)
        /\ ((KillOne(p) \/ KillOneDenied(p)) /\ inv[p].dry_run) =>
              (procs' = procs /\ files' = files /\ inv'[p].removed = inv[p].removed)
      ]_vars

\* A kill --dry-run --remove of a live process is over: it said Killed, the
\* record is there and the process was not signalled.
C16_Witness ==
    \E p \in Slots :
        /\ KillOver(p) /\ inv[p].dry_run /\ inv[p].remove
        /\ inv[p].said = "Killed" /\ inv[p].seen # 0 /\ HasUuid(inv[p].seen)
        /\ \E k \in DOMAIN all(files) :
              all(files)[k].uuid = inv[p].seen /\ procs[all(files)[k].pid].st = "run"

\* C20: a kill of a record whose pid is not there says Not found, signals
\* nothing, goes on with the batch, and drops the record exactly under
\* --remove without --dry-run.
C20_KillOfGoneProcess ==
    [][\A p \in Slots :
        /\ KillOneDenied(p) => check_pid(Head(inv[p].todo).pid)
        /\ (KillOne(p) /\ ~check_pid(Head(inv[p].todo).pid)) =>
              /\ inv'[p].said = "Not found"
              /\ procs' = procs
              /\ inv'[p].outcome # "PermissionError"
              /\ Tail(inv[p].todo) # <<>> =>
                    (inv'[p].pc = "kill_one" /\ inv'[p].todo = Tail(inv[p].todo))
              /\ files' = IF inv[p].remove /\ ~inv[p].dry_run
                          THEN Unlink(files, Head(inv[p].todo).file) ELSE files
      ]_vars

\* A kill --remove of the record of a dead process is over: it said Not found
\* and the record is gone.
C20_Witness ==
    \E p \in Slots :
        /\ KillOver(p) /\ inv[p].remove /\ ~inv[p].dry_run
        /\ inv[p].said = "Not found" /\ inv[p].seen # 0 /\ ~HasUuid(inv[p].seen)
        /\ inv[p].removed = 1

\* The states of the processes of the records of that uuid.
StatesOfUuid(u) ==
    {procs[all(files)[k].pid].st : k \in {j \in DOMAIN all(files) : all(files)[j].uuid = u}}

\* Lifecycle: the field chain of a command that is over counts how far the
\* commands, each following the one before it at once, took one record:
\*   1  status of the record while its process lives;
\*   2  then kill of it, without --dry-run and --remove (and 2 still after a
\*      status that finds the signalled process alive);
\*   3  then status of it when its process is dead;
\*   4  then clean over all records;
\*   5  then clean over all records once more.
\* What the commands did at each of these places:
Lifecycle ==
    \A p \in Slots :
        inv[p].pc = "done" =>
            /\ (inv[p].cmd = "status" /\ inv[p].chain \in {1, 2}) => inv[p].said = "Running"
            /\ (inv[p].cmd = "kill" /\ inv[p].chain = 2) =>
                  (HasUuid(inv[p].seen) /\ "run" \notin StatesOfUuid(inv[p].seen))
            /\ (inv[p].cmd = "status" /\ inv[p].chain = 3) =>
                  (inv[p].said = "Absent" /\ HasUuid(inv[p].seen))
            /\ (inv[p].cmd = "clean" /\ inv[p].chain = 4) =>
                  (~HasUuid(inv[p].seen) /\ inv[p].removed >= 1 /\ inv[p].outcome = "")
            /\ (inv[p].cmd = "clean" /\ inv[p].chain = 5) =>
                  /\ ~HasUuid(inv[p].seen) /\ inv[p].outcome = ""
                  /\ inv[p].again # "no" => inv[p].removed = 0

\* C17: status says Running while the process of a record lives; after a kill
\* (no --dry-run, no --remove) the process stops in the end, status then says
\* Absent and the record is still there; the clean that follows removes the
\* record and the clean after that raises no error and removes nothing (no
\* other recorded process having been alive at the first clean).
C17_LifecycleOrder ==
    /\ []Lifecycle
    /\ \A pid \in Pids : (procs[pid].st = "term") ~> (procs[pid].st = "free")

\* The second clean of a lifecycle is over.
C17_Witness ==
    \E p \in Slots :
        /\ CleanOver(p) /\ inv[p].chain = 5
        /\ inv[p].again = "after_some" /\ inv[p].removed = 0

\* A step of a command that only reads: status, list, tail.
ReadOnlyStep(p) ==
    \/ StatusStart(p) \/ StatusOne(p)
    \/ LsStart(p) \/ LsOne(p)
    \/ TailStart(p) \/ TailOne(p)

\* A step of the loop of Kill.start, as it ends either way.
KillStep(p) == KillOne(p) \/ KillOneDenied(p)

\* C18 as stated: status, list, tail and kill without --remove leave every
\* file of the registry as it is, and a step after which a record is no
\* longer there as it was is a step of clean or of kill with --remove.
C18_OnlyCleanOrKillRemoves ==
    [][/\ \A p \in Slots :
            /\ ReadOnlyStep(p) => files' = files
            /\ (KillStart(p) \/ (KillStep(p) /\ ~inv[p].remove)) => files' = files
       /\ LostRecords(files, files') # {} =>
             \E p \in Slots : CleanOne(p) \/ (KillStep(p) /\ inv[p].remove)
      ]_vars

\* C18 as amended: status, list, tail and kill without --remove leave every
\* file of the registry as it is, and a step after which a record is no
\* longer there as it was is a step of clean, of kill with --remove, or a
\* step of a spawn on the record file of its own name: opening it with
\* overwrite truncates it (an exclusive create loses nothing), and the dump
\* writes over what a spawn that opened the same file wrote meanwhile.
C18_OnlyExplicitRemoval ==
    [][/\ \A p \in Slots :
            /\ ReadOnlyStep(p) => files' = files
            /\ (KillStart(p) \/ (KillStep(p) /\ ~inv[p].remove)) => files' = files
            /\ (SpawnOpenRun(p) /\ ~inv[p].overwrite) => LostRecords(files, files') = {}
       /\ LostRecords(files, files') # {} =>
             \E p \in Slots :
                \/ CleanOne(p)
                \/ KillStep(p) /\ inv[p].remove
                \/ /\ SpawnOpenRun(p) \/ SpawnDump(p)
                   /\ \A lost \in LostRecords(files, files') :
                         lost.file = RunPath(inv[p].name)
      ]_vars

\* A kill without --remove of the record of a dead process is over: it said
\* Not found and the record is still there.
C18_Witness ==
    \E p \in Slots :
        /\ KillOver(p) /\ ~inv[p].remove /\ ~inv[p].dry_run
        /\ inv[p].said = "Not found" /\ inv[p].seen # 0 /\ HasUuid(inv[p].seen)

RestartOver(p) == inv[p].pc = "done" /\ inv[p].cmd = "restart"

\* C19: when a restart that resolved a record is over, no other command
\* having been invoked and neither the signal nor the launch having been
\* refused, the registry holds one record of that name, with the command of
\* the old record, written by this restart for the process it launched.
C19_RestartRelaunches ==
    \A p \in Slots :
        (/\ RestartOver(p) /\ inv[p].name # <<>>
         /\ inv[p].outcome \notin {"PopenError", "PermissionError"}
         /\ \A q \in Slots \ {p} : inv[q].pc = "idle") =>
            LET recs == find_name(inv[p].name, files)
            IN  /\ inv[p].outcome = "Started"
                /\ Len(recs) = 1
                /\ recs[1].cmd \in Cmds
                /\ recs[1].uuid = inv[p].info.uuid
                /\ recs[1].pid = inv[p].info.pid
                /\ procs[recs[1].pid].name = inv[p].name

\* C21: a step of kill on the record x changes only processes that were
\* launched under the name of x and removes only records of that name.
C21_KillTouchesOnlyItsName ==
    [][\A p \in Slots :
        KillStep(p) =>
            LET x == Head(inv[p].todo)
            IN  /\ \A pid \in Pids :
                      procs'[pid] # procs[pid] => procs[pid].name = x.name
                /\ \A lost \in LostRecords(files, files') : lost.name = x.name
      ]_vars

\* C22: Spawn.spawn with overwrite never raises FileExistsError, and when it
\* dumps its record into the run file of a name that had a record when it
\* started (the file not having been removed meanwhile), enumeration holds
\* one record for the name, with the pid, uuid and start time of this launch.
C22_OverwriteReplaces ==
    /\ [](\A p \in Slots :
            (inv[p].cmd = "spawn" /\ inv[p].overwrite) =>
                inv[p].outcome # "FileExistsError")
    /\ [][\A p \in Slots :
            (/\ SpawnDump(p) /\ inv[p].cmd = "spawn" /\ inv[p].overwrite
             /\ inv[p].seen # 0
             /\ Exists(RunPath(inv[p].name))
             /\ files[RunPath(inv[p].name)].ino = inv[p].ino) =>
                LET recs == find_name(inv[p].name, files')
                IN  /\ inv'[p].outcome = "Started"
                    /\ Len(recs) = 1
                    /\ recs[1].pid = inv[p].info.pid
                    /\ recs[1].uuid = inv[p].info.uuid
                    /\ recs[1].started = inv[p].info.started
                    /\ recs[1].uuid # inv[p].seen
                    /\ recs[1].started > inv[p].seen
         ]_vars

\* A spawn with overwrite is over under a name that had a record: the record
\* of the name is its own, and the earlier process of the name still runs.
C22_Witness ==
    \E p \in Slots :
        /\ IsSpawnOver(p) /\ inv[p].cmd = "spawn" /\ inv[p].overwrite
        /\ inv[p].seen # 0 /\ inv[p].outcome = "Started"
        /\ RecordUuid(inv[p].name) = inv[p].info.uuid
        /\ \E pid \in LiveOf(inv[p].name) \ {inv[p].info.pid} : procs[pid].st = "run"

(***************************************************************************)
(* check_pid(pid), utils.py 17-145: the variant in use is the psutil one   *)
(* when psutil can be imported, else the Windows one when os.name is "nt", *)
(* else the POSIX one. In SpecProbe procs is pid -> what the OS holds      *)
(* under the pid, and inv is slot -> a call of check_pid.                  *)
(***************************************************************************)
\* What the OS holds under a pid: nothing ("free"), a process the caller may
\* query ("run"), a process of another user ("denied"), or a process on which
\* the probe fails for another reason ("fault").
ProbeStates == {"free", "run", "denied", "fault"}

Variants == {"psutil", "nt", "posix"}

ProbeIdle == [pc |-> "idle", variant |-> "", pid |-> 0, result |-> ""]

\* psutil.Process(pid) (utils.py 23): what it raises, "" when it returns.
psutil_Process(st) ==
    CASE st = "free" -> "NoSuchProcess"
      [] st = "denied" -> "AccessDenied"
      [] st = "fault" -> "Error"
      [] OTHER -> ""

\* check_pid with psutil (utils.py 21-28).
check_pid_psutil(st) ==
    CASE psutil_Process(st) = "" -> "True"
      [] psutil_Process(st) = "NoSuchProcess" -> "False"
      [] psutil_Process(st) = "AccessDenied" -> "True"
      [] OTHER -> "raise"

\* kernel32.OpenProcess(PROCESS_QUERY_LIMITED_INFORMATION, False, pid)
\* (utils.py 67): a handle, or none when the pid is not there, when access
\* is denied and when the call fails otherwise.
OpenProcess(st) == st = "run"

\* check_pid on Windows without psutil (utils.py 59-77); a handle that was
\* opened is the handle of a process that is still active here.
check_pid_nt(st) ==
    IF ~OpenProcess(st) THEN "False" ELSE "True"

\* kill(pid, 0) (utils.py 138): the errno it fails with, "" when it succeeds.
kill0(st) ==
    CASE st = "free" -> "ESRCH"
      [] st = "denied" -> "EPERM"
      [] st = "fault" -> "EOTHER"
      [] OTHER -> ""

\* check_pid on POSIX without psutil (utils.py 133-145).
check_pid_posix(st) ==
    CASE kill0(st) = "" -> "True"
      [] kill0(st) = "ESRCH" -> "False"
      [] kill0(st) = "EPERM" -> "True"
      [] OTHER -> "raise"

\* check_pid is called with a pid, under one of the builds.
ProbeCall(p) ==
    /\ inv[p].pc \in {"idle", "returned"}
    /\ \E v \in Variants, pid \in Pids :
          inv' = [inv EXCEPT ![p] = [pc |-> "called", variant |-> v, pid |-> pid,
                                     result |-> ""]]
    /\ UNCHANGED <<files, procs, clock, ncmd>>
    /\ UNCHANGED notReg

\* check_pid returns or raises; none of the variants sends a signal.
ProbeReturn(p) ==
    /\ inv[p].pc = "called"
    /\ LET st == procs[inv[p].pid]
       IN  inv' = [inv EXCEPT ![p].pc = "returned",
                              ![p].result =
                                 CASE inv[p].variant = "psutil" -> check_pid_psutil(st)
                                   [] inv[p].variant = "nt" -> check_pid_nt(st)
                                   [] OTHER -> check_pid_posix(st)]
    /\ UNCHANGED <<files, procs, clock, ncmd>>
    /\ UNCHANGED notReg

ProbeInit ==
    /\ procs \in [Pids -> ProbeStates]
    /\ inv = [p \in Slots |-> ProbeIdle]
    /\ files = <<>> /\ clock = 0 /\ ncmd = 0
    /\ TailIdle
    /\ LookIdle

ProbeNext == \E p \in Slots : ProbeCall(p) \/ ProbeReturn(p)

SpecProbe == ProbeInit /\ [][ProbeNext]_vars

\* C23: check_pid changes no process; it returns False when the process is
\* not there, True when it is there, also when the caller has no permission
\* on it, and raises on every other failure of the probe.
C23_CheckPid ==
    /\ [][procs' = procs]_vars
    /\ [](\A p \in Slots :
            inv[p].pc = "returned" =>
                LET st == procs[inv[p].pid]
                IN  /\ st = "free" => inv[p].result = "False"
                    /\ st \in {"run", "denied"} => inv[p].result = "True"
                    /\ st = "fault" => inv[p].result = "raise")

\* C24: no two records of the registry carry the same pid.
C24_NoPidTwice ==
    \A j, k \in DOMAIN all(files) :
        j # k => all(files)[j].pid # all(files)[k].pid

\* The positions of ids at which an id occurs for the first time, and the
\* k-th of them.
FirstPositions == {i \in DOMAIN lids : \A j \in 1..(i - 1) : lids[j] # lids[i]}
FirstPosition(k) ==
    CHOOSE i \in FirstPositions : Cardinality({j \in FirstPositions : j <= i}) = k

\* The records of runs in the order pi.
Reordered(runs, pi) == [i \in DOMAIN runs |-> runs[pi[i]]]

\* C25: when look_multiple is exhausted, the ids it resolved are the distinct
\* ids, each once, in the order of their first occurrence; it yielded at most
\* as many records as there are distinct ids; and the same ids on the same
\* records in any other order give the same yields and calls.
C25_OrderOfYields ==
    LookDone =>
        /\ Len(levents) = Cardinality(FirstPositions)
        /\ \A k \in DOMAIN levents : levents[k].id = lids[FirstPosition(k)]
        /\ Len(RecsOf(levents)) <= Cardinality(IdsGiven)
        /\ \A pi \in Permutations(DOMAIN lruns) :
              look_multiple(lids, Reordered(lruns, pi)) = levents

\* An id was given twice, two records were yielded, and the record yielded
\* first comes after the other one in runs.
C25_Witness ==
    /\ LookDone
    /\ \E i, j \in DOMAIN lids : i # j /\ lids[i] = lids[j]
    /\ Len(RecsOf(levents)) = 2
    /\ RecsOf(levents)[1].pid > RecsOf(levents)[2].pid

(***************************************************************************)
(* Spawn.all(), spawn.py 74-91, file by file, while another invocation     *)
(* writes a run file (spawn.py 69-70) and records are dropped. In SpecScan *)
(* the data of a file is its text, as a sequence of tokens, and inv holds  *)
(* the scan and the writer.                                                *)
(***************************************************************************)
\* Writes and removals by other invocations while the scan goes on.
MaxTouches == 2

\* The text dump(process_info, f) writes, token by token.
FullDoc == <<"{", "pid", "}">>

\* The texts a run file can hold when the scan begins: nothing, the beginning
\* of a record, a record, something that is no JSON, JSON that is no object.
ScanDocs == {<<>>, <<"{">>, <<"{", "pid">>, FullDoc, <<"junk">>, <<"[", "]">>}

\* The paths of the data directory in SpecScan.
ScanPaths == {RunPath(n) : n \in RegNames} \cup {LogPath(<<"a">>)}

IsRunFile(q) == q[Len(q)] = ".run.json"

\* json.load(f) (spawn.py 87): the kind of value it returns, or the exception
\* it raises on a text that is no JSON document.
load(text) ==
    IF text = <<"[", "]">> THEN "list"
    ELSE IF /\ Len(text) >= 2 /\ text[1] = "{" /\ text[Len(text)] = "}"
            /\ \A i \in 2..(Len(text) - 1) : text[i] \notin {"{", "}", "[", "]", "junk"}
    THEN "dict"
    ELSE "JSONDecodeError"

ScanIdle == [pc |-> "idle", todo |-> <<>>, yielded |-> <<>>, skipped |-> <<>>,
             steady |-> {}]
WriterIdle == [pc |-> "idle", path |-> <<>>]

\* The run files that hold a record and were neither written nor removed
\* since the scan began lose a path that is touched.
Touch(i, path) == [i EXCEPT !.steady = @ \ {path}]

\* for child in self.data_dir.iterdir() (spawn.py 79): the names are listed.
AllStart ==
    /\ inv.scan.pc = "idle"
    /\ inv' = [inv EXCEPT !.scan = [ScanIdle EXCEPT
                   !.pc = IF DOMAIN files = {} THEN "done" ELSE "is_file",
                   !.todo = SeqOfSet(DOMAIN files),
                   !.steady = {q \in DOMAIN files : IsRunFile(q) /\ files[q].data = FullDoc}]]
    /\ UNCHANGED <<files, procs, clock, ncmd>>
    /\ UNCHANGED notReg

\* The scan goes to its next child, or ends.
NextChild(i) ==
    [i EXCEPT !.todo = Tail(@), !.pc = IF Tail(i.todo) = <<>> THEN "done" ELSE "is_file"]

\* child.is_file() and child.name.endswith(".run.json") (spawn.py 81-82);
\* is_file() is False for a path that is not there.
AllIsFile ==
    /\ inv.scan.pc = "is_file"
    /\ LET child == Head(inv.scan.todo)
       IN  inv' = [inv EXCEPT !.scan = IF child \in DOMAIN files /\ IsRunFile(child)
                                       THEN [@ EXCEPT !.pc = "stat"]
                                       ELSE NextChild(@)]
    /\ UNCHANGED <<files, procs, clock, ncmd>>
    /\ UNCHANGED notReg

\* child.stat().st_size > 0 (spawn.py 83), outside the try: stat() raises
\* FileNotFoundError for a path that is not there any more.
AllStat ==
    /\ inv.scan.pc = "stat"
    /\ LET child == Head(inv.scan.todo)
       IN  inv' = [inv EXCEPT !.scan =
                     IF child \notin DOMAIN files THEN [@ EXCEPT !.pc = "raised"]
                     ELSE IF files[child].data = <<>> THEN NextChild(@)
                     ELSE [@ EXCEPT !.pc = "load"]]
    /\ UNCHANGED <<files, procs, clock, ncmd>>
    /\ UNCHANGED notReg

\* A scan that lets the exception of a bad file through (not what the code does).
OnLoadErrorFatal(i) == [i EXCEPT !.pc = "raised"]

\* except Exception as e: logging.exception(...) (spawn.py 90-91): the file
\* is passed over and the loop goes on.
OnLoadError(i) == NextChild(i)

\* with child.open() as f: d = load(f); d["file"] = str(child); yield d
\* (spawn.py 85-89): open raises for a path that is not there, load raises
\* on a text that is no JSON, and d["file"] = ... raises on a value that is
\* no dict.
AllLoad ==
    /\ inv.scan.pc = "load"
    /\ LET child == Head(inv.scan.todo)
           text == IF child \in DOMAIN files THEN files[child].data ELSE <<>>
       IN  inv' = [inv EXCEPT !.scan =
                     IF child \in DOMAIN files /\ load(text) = "dict"
                     THEN NextChild([@ EXCEPT !.yielded =
                                        Append(@, [file |-> child, text |-> text])])
                     ELSE OnLoadError([@ EXCEPT !.skipped =
                                          Append(@, [file |-> child, text |-> text])])]
    /\ UNCHANGED <<files, procs, clock, ncmd>>
    /\ UNCHANGED notReg

\* with run_file.open(mode) as f (spawn.py 69) of a spawn of another
\* invocation: the run file is created, or truncated under overwrite.
WriterOpen ==
    /\ inv.writer.pc = "idle" /\ ncmd < MaxTouches
    /\ \E n \in RegNames :
          /\ files' = OpenWrite(files, RunPath(n), 0)
          /\ inv' = [inv EXCEPT !.writer = [pc |-> "writing", path |-> RunPath(n)],
                                 !.scan = Touch(@, RunPath(n))]
    /\ ncmd' = ncmd + 1
    /\ UNCHANGED <<procs, clock>>
    /\ UNCHANGED notReg

\* dump(process_info, f, indent=True) (spawn.py 70): the text reaches the
\* file piece by piece, as the buffer of f is flushed.
WriterWrite ==
    /\ inv.writer.pc = "writing"
    /\ LET q == inv.writer.path
       IN  IF q \in DOMAIN files
           THEN LET text == Append(files[q].data, FullDoc[Len(files[q].data) + 1])
                IN  /\ files' = [files EXCEPT ![q].data = text]
                    /\ inv' = [inv EXCEPT !.writer = IF text = FullDoc THEN WriterIdle ELSE @]
           ELSE /\ inv' = [inv EXCEPT !.writer = WriterIdle]
                /\ UNCHANGED files
    /\ UNCHANGED <<procs, clock, ncmd>>
    /\ UNCHANGED notReg

\* sp.drop(d) of a clean or a kill --remove of another invocation.
ScanDrop ==
    /\ ncmd < MaxTouches
    /\ \E q \in DOMAIN files :
          /\ IsRunFile(q)
          /\ files' = Unlink(files, q)
          /\ inv' = [inv EXCEPT !.scan = Touch(@, q)]
    /\ ncmd' = ncmd + 1
    /\ UNCHANGED <<procs, clock>>
    /\ UNCHANGED notReg

ScanInit ==
    /\ \E present \in SUBSET ScanPaths :
          files \in [present -> {[ino |-> 1, data |-> d] : d \in ScanDocs}]
    /\ \A q \in DOMAIN files : ~IsRunFile(q) => files[q].data = <<>>
    /\ inv = [scan |-> ScanIdle, writer |-> WriterIdle]
    /\ procs = <<>> /\ clock = 0 /\ ncmd = 0
    /\ TailIdle
    /\ LookIdle

ScanNext ==
    \/ AllStart \/ AllIsFile \/ AllStat \/ AllLoad
    \/ WriterOpen \/ WriterWrite \/ ScanDrop

SpecScan == ScanInit /\ [][ScanNext]_vars

MaxGrow == 1

\* The producer appends a byte after the call took the end of the file.
Grow ==
    /\ tpc \in {"scan", "bytes_sized"}
    /\ Len(file) < tend + MaxGrow
    /\ \E b \in Bytes : file' = Append(file, b)
    /\ UNCHANGED <<tn, tend, tpos, tcount, tpc, tresult>>
    /\ UNCHANGED notTail

GrowInit == (TailInit \/ BytesInit) /\ LookIdle /\ RegIdle

GrowNext == TailNext \/ BytesNext \/ Grow

SpecGrow == GrowInit /\ [][GrowNext]_vars

\* The file as it was when the call took its end.
AtCall == SubSeq(file, 1, tend)

\* C27: what tail_file and tail_bytes return is made of the bytes the file
\* held when the end of the file was taken: it is what the same seek and read
\* give on the file as it was then.
C27_ReadsOnlyWhatWasThere ==
    /\ tpc = "done" =>
          tresult = LastN(splitlines(ReadFrom(AtCall, TailSeekPos(tpos))), tn)
    /\ tpc = "bytes_done" =>
          tresult = (IF tend < tn THEN AtCall
                     ELSE ReadAt(AtCall, BytesSeekPos(tend, tn), tn))

(***************************************************************************)
(* look(id, runs), utils.py 174-184.                                       *)
(***************************************************************************)
RECURSIVE look_from(_, _, _)
\* The loop of look from the records that remain, m being the partial match
\* met so far (NoRec for None). What look returns is told as the event
\* look_multiple has for it: a record as a yield, False as ambiguous, None
\* as not_found.
look_from(id, runs, m) ==
    IF runs = <<>>
    THEN IF m = NoRec THEN Event("not_found", id, NoRec) ELSE Event("yield", id, m)
    ELSE LET x == Head(runs)
         IN  IF x.name = id THEN Event("yield", id, x)
             ELSE IF IsSubstr(id, x.name)
             THEN IF m # NoRec THEN Event("ambiguous", id, NoRec)
                  ELSE look_from(id, Tail(runs), x)
             ELSE look_from(id, Tail(runs), m)

look(id, runs) == look_from(id, runs, NoRec)

\* C28: look_multiple run on one id yields the record look returns, calls
\* ambiguous exactly when look returns False, and calls not_found exactly
\* when look returns None.
C28_LookAgrees ==
    (LookDone /\ Len(lids) = 1) => levents = <<look(lids[1], lruns)>>

====
